---- MODULE Spec2Model ----
(***************************************************************************)
(* Model of mbs-manager's bedrock package: the console multiplexer         *)
(* (console.go part of src/cmd/mbs/main.go), the command/response          *)
(* correlator Server.SendRawCommandWaitResponse (src/unnamed/part_000)     *)
(* and the backup orchestrator Server.Backup (src/cmd/mbs/main.go).        *)
(*                                                                         *)
(* Text is modelled at the lexical level: a line is a sequence of tokens   *)
(* (words, the separators ", " and ":"), a multi-line text is a sequence   *)
(* of tokens in which the token "\n" separates lines.                      *)
(***************************************************************************)
EXTENDS Integers, Sequences, FiniteSets, TLC

\* ------------------------------------------------------------------ bounds

\* Number of lines the subprocess prints on its stdout in one behaviour.
MaxLines == 3

\* Number of lines the terminal bridge (Attach) reads from its input.
MaxAttachCmds == 1

\* The number of tokens of an entry of a listing.
MaxEntryLen == 3

\* The largest length of a listed file and size of a file on disk.
MaxSize == 2

\* ------------------------------------------------------------ the processes

\* The concurrent callers of Server.Backup.
Procs == {"b1", "b2"}

\* The owner of the channel Server.Attach subscribes.
Att == "att"

\* ------------------------------------------------------------ the protocol

NL == "\n"

TokSaving == "Saving..."
TokData == "Data saved. Files are now ready to be copied:"
TokResumed == "Changes to the world are resumed"
TokLevelname == "world/levelname.txt"
TokCurrent == "world/db/CURRENT"

\* The lines the subprocess may print (the environment's alphabet).
LEmpty == << >>
LSaving == <<TokSaving>>
LData == <<TokData>>
LList == <<TokCurrent, ":", "16", ", ", TokLevelname, ":", "12">>
LBad == <<TokLevelname>>
LResumed == <<TokResumed>>

Lines == {LEmpty, LSaving, LData, LList, LBad, LResumed}

CmdHold == "save hold"
CmdQuery == "save query"
CmdResume == "save resume"

\* The response patterns of saveHold, saveQuery and saveResume.
PatHold == "(?m)^Saving\\.\\.\\."
PatQuery == "(?s)Data saved. Files are now ready to be copied.*levelname.txt"
PatResume == "(?m)^Changes to the world are resumed"

\* A command and two response patterns a direct caller of
\* SendRawCommandWaitResponse passes; the second has an unclosed group.
CmdList == "list"
PatList == PatHold
PatBad == "(?m)^Saving\\.\\.\\.("

\* Mutant: every pattern compiles.
CompileAccepts(pattern) == "nil"

\* regexp.Compile: the error for the pattern.
Compile(pattern) == IF pattern = PatBad THEN "CompileError" ELSE "nil"

\* Tokens in which the literal levelname.txt occurs.
MentionsLevelname(tok) == tok = TokLevelname

\* Tokens that begin with the literal of the named pattern.
StartsWith(pattern, tok) ==
    CASE pattern = PatHold -> tok = TokSaving
      [] pattern = PatResume -> tok = TokResumed
      [] OTHER -> FALSE

\* regexp.MatchString for the three patterns, on a token text.
MatchString(pattern, text) ==
    IF pattern = PatQuery
    THEN \E i \in 1..Len(text) : \E j \in (i+1)..Len(text) :
            text[i] = TokData /\ MentionsLevelname(text[j])
    ELSE \E i \in 1..Len(text) :
            /\ StartsWith(pattern, text[i])
            /\ (i = 1 \/ text[i-1] = NL)

\* The accumulation step of SendRawCommandWaitResponse's receive loop.
Accumulate(output, m) ==
    IF output = << >> THEN m ELSE output \o <<NL>> \o m

\* strings.Split on a token sequence: the pieces of s between occurrences of sep.
RECURSIVE Split(_, _)
Split(s, sep) ==
    IF \A i \in 1..Len(s) : s[i] # sep
    THEN <<s>>
    ELSE LET i == CHOOSE k \in 1..Len(s) :
                    s[k] = sep /\ \A j \in 1..(k-1) : s[j] # sep
         IN  <<SubSeq(s, 1, i-1)>> \o Split(SubSeq(s, i+1, Len(s)), sep)

\* The newline-join of a sequence of lines.
RECURSIVE Join(_)
Join(ls) ==
    IF ls = << >> THEN << >>
    ELSE IF Len(ls) = 1 THEN ls[1]
    ELSE ls[1] \o <<NL>> \o Join(Tail(ls))

\* strconv.ParseInt on a token: the decimal tokens of the alphabet.
Atoi == [t \in {"16", "12"} |-> IF t = "16" THEN 16 ELSE 12]

IsInt(piece) == Len(piece) = 1 /\ piece[1] \in DOMAIN Atoi

\* Mutant: the entries are taken from the first line of the response.
EntriesLineFirst(lines) == lines[1]

\* parseSaveQuery: the line whose entries are parsed, lines[len(lines)-1].
EntriesLine(lines) == lines[Len(lines)]

\* parseSaveQuery: the first line mentioning levelname.txt must exist; the
\* entries are those of the LAST line, each name:length.
parseSaveQuery(response) ==
    LET lines == Split(response, NL)
        found == \E i \in 1..Len(lines) : \E k \in 1..Len(lines[i]) :
                    MentionsLevelname(lines[i][k])
        entries == Split(EntriesLine(lines), ", ")
        f(i) == Split(entries[i], ":")
        valid(i) == Len(f(i)) >= 2 /\ IsInt(f(i)[2])
    IN  IF ~found
        THEN [files |-> << >>, err |-> "ParseError"]
        ELSE IF \E i \in 1..Len(entries) : ~valid(i)
        THEN [files |-> << >>, err |-> "ParseError"]
        ELSE [files |-> [i \in 1..Len(entries) |->
                            [Name |-> f(i)[1], Length |-> Atoi[f(i)[2][1]]]],
              err |-> "nil"]

\* ------------------------------------------------- the files (backup.go)

\* A file name is the sequence of the elements of its slash-separated path.
Base(name) == name[Len(name)]
Dir(name) == SubSeq(name, 1, Len(name) - 1)
JoinPath(dir, elem) == Append(dir, elem)

\* The files of a world that are not in the db directory.
nonDBFiles == {"level.dat", "level.dat_old", "levelname.txt"}

\* realFilePath of the version with the list of non-db files.
realFilePathNonDB(file) ==
    LET base == Base(file.Name)
        dir == Dir(file.Name)
    IN  IF base \notin nonDBFiles
        THEN JoinPath(JoinPath(dir, "db"), base)
        ELSE JoinPath(dir, base)

\* os.Stat / os.Open succeed on the paths of the disk; a disk is a function
\* from the existing paths (below worlds/) to the sizes of the files.
Exists(disk, path) == path \in DOMAIN disk

\* realFilePath: a name that does not exist is assumed to miss the db element.
realFilePath(file, disk) ==
    LET base == Base(file.Name)
        dir == Dir(file.Name)
    IN  IF ~Exists(disk, file.Name)
        THEN JoinPath(JoinPath(dir, "db"), base)
        ELSE JoinPath(dir, base)

\* io.CopyN(dst, src, n) from a file of the given size: the bytes written and
\* the error (EOF when the source ends before n bytes).
CopyN(size, n) ==
    IF size < n THEN [n |-> size, err |-> "EOF"] ELSE [n |-> n, err |-> "nil"]

\* addFileToTar: the error, the path written and the bytes copied to it.
addFileToTar(file, disk) ==
    LET p == realFilePath(file, disk)
    IN  IF ~Exists(disk, p)
        THEN [err |-> "NotExist", path |-> p, n |-> 0]
        ELSE LET c == CopyN(disk[p], file.Length)
             IN  [err |-> c.err, path |-> p, n |-> c.n]

\* copyFile: the error, the path written and the bytes copied to it.
copyFile(file, disk) ==
    LET p == realFilePath(file, disk)
    IN  IF ~Exists(disk, p)
        THEN [err |-> "NotExist", path |-> p, n |-> 0]
        ELSE LET c == CopyN(disk[p], file.Length)
             IN  [err |-> c.err, path |-> p, n |-> c.n]

\* Mutant: the loop of TarBackup.Backup drops the error of addFileToTar.
RECURSIVE TarBackupIgnoresErrors(_, _)
TarBackupIgnoresErrors(files, disk) ==
    IF files = << >>
    THEN [err |-> "nil", copied |-> << >>]
    ELSE LET r == addFileToTar(files[1], disk)
             rest == TarBackupIgnoresErrors(Tail(files), disk)
         IN  [err |-> "nil",
              copied |-> <<[path |-> r.path, n |-> r.n]>> \o rest.copied]

\* TarBackup.Backup: the files are added in order, the first error returns.
\* The result is the error and what was written for each file.
RECURSIVE TarBackup(_, _)
TarBackup(files, disk) ==
    IF files = << >>
    THEN [err |-> "nil", copied |-> << >>]
    ELSE LET r == addFileToTar(files[1], disk)
             rest == TarBackup(Tail(files), disk)
         IN  IF r.err # "nil"
             THEN [err |-> r.err, copied |-> <<[path |-> r.path, n |-> r.n]>>]
             ELSE [err |-> rest.err,
                   copied |-> <<[path |-> r.path, n |-> r.n]>> \o rest.copied]

\* copyBackup: the files are copied in order, the first error returns.
RECURSIVE copyBackup(_, _)
copyBackup(files, disk) ==
    IF files = << >>
    THEN [err |-> "nil", copied |-> << >>]
    ELSE LET r == copyFile(files[1], disk)
             rest == copyBackup(Tail(files), disk)
         IN  IF r.err # "nil"
             THEN [err |-> r.err, copied |-> <<[path |-> r.path, n |-> r.n]>>]
             ELSE [err |-> rest.err,
                   copied |-> <<[path |-> r.path, n |-> r.n]>> \o rest.copied]

\* Mutant: the deferred function never resumes.
DeferredResumeNever(e) == FALSE

\* The deferred function of Server.Backup: resume when the err variable is set.
DeferredResume(e) == e # "nil"

\* --------------------------------------------------------------- the state

VARIABLES
    \* console
    subs,        \* console.subs: the registered channels, <<owner, call number>>
    mutex,       \* console.mutex: "unlocked" or "rlocked" (held by BroadcastMessage)
    writing,     \* the queue consumer's m: <<sender, command>> taken from inputQueue
    rpc,         \* readOutput: "scan" or "send" (blocked in channel <- message)
    rmsg,        \* readOutput: the line being broadcast
    rcur,        \* BroadcastMessage: the channel of the current iteration
    rrest,       \* BroadcastMessage: the channels not yet iterated
    nscanned,    \* number of lines scanned so far
    stdin,       \* console.input: the number of Write calls made on it and
                 \* the tokens of the last one
    \* one SendRawCommandWaitResponse call per Backup caller
    pc,          \* position of each Backup caller
    phase,       \* which step of Backup the current call belongs to
    cerr,        \* Err() of the call's context (WithTimeout of the caller's)
    callNo,      \* number of channels the caller has made
    output,      \* the accumulated output
    res,         \* the error the call returns ("none" while it runs)
    \* Server.Backup
    backupMutex, \* "free" or its holder
    err,         \* Backup's err variable
    retry,       \* retry counter of the query loop
    ret,         \* the value Backup returned
    sink,        \* opts.Backupper: "set" or "nil"
    cancelled,   \* whether the caller's context is cancelled
    \* Server.Attach
    apc,         \* "init", "attached", "detached"
    acmds,       \* number of input lines Attach has forwarded
    \* history
    sent,        \* per Backup caller, the commands its Backup call has sent
    unresumed,   \* the callers whose last save command sent is a "save hold" that
                 \* no "save resume" of theirs has followed
    rets,        \* per Backup caller, the errors its calls returned
    sinkres,     \* per Backup caller, what its sink returned ("none": not invoked)
    got,         \* per Backup caller, the lines delivered to its current channel
    rstale,      \* channels of the running broadcast whose Unsubscribe had returned
                 \* when it started
    late,        \* channels that received a line of a broadcast started after
                 \* their Unsubscribe returned
    lastIdx,     \* while the terminal is attached, the number of the last line
                 \* it received (at Subscribe: of the last line scanned)
    missed,      \* TRUE once the terminal received a line that is not the one
                 \* after the last it received
    \* console.Close
    closed,      \* Close has closed inputQueue and stop
    panicked,    \* a goroutine sent on a closed channel
    \* RunServer
    lpc,         \* go s.console.Subscribe(messages): "init" or "subscribed"
    mclosed,     \* the wait goroutine has closed messages
    \* the backup files
    pin,         \* the response, the listing and the disk a function is applied to
    pout         \* the function applied and its result

consoleVars == <<subs, mutex, writing, rpc, rmsg, rcur, rrest, nscanned, stdin>>
callVars == <<pc, phase, cerr, callNo, output, res>>
backupVars == <<backupMutex, err, retry, ret, sink, cancelled>>
attachVars == <<apc, acmds>>
histVars == <<sent, unresumed, rets, sinkres, got, rstale, late>>
fanVars == <<lastIdx, missed>>
lifeVars == <<closed, panicked>>
logVars == <<lpc, mclosed>>
pureVars == <<pin, pout>>
vars == <<consoleVars, callVars, backupVars, attachVars, histVars, fanVars,
          lifeVars, logVars, pureVars>>

NoChan == <<"none", 0>>

\* The queue consumer waits in its range over inputQueue.
NoCmd == <<"none", "none">>

\* Mutant: the newline of the format is missing.
FprintfNoNewline(m) == <<m>>

\* fmt.Fprintf(c.input, "%s\n", m): the tokens of the one Write it makes.
Fprintf(m) == <<m, NL>>

\* The queue consumer's range over inputQueue has ended.
WriterExited == <<"exited", "exited">>

\* The channel made by p's current SendRawCommandWaitResponse call.
Chan(p) == <<p, callNo[p]>>
AttChan == <<Att, 1>>

\* The channel RunServer makes for processMessages.
LogChan == <<"log", 1>>

\* No function has been applied to anything.
NoInput == [response |-> << >>, heading |-> << >>, entries |-> << >>,
            files |-> << >>, disk |-> << >>]
NoOutput == [op |-> "none"]

\* The state after NewServer and RunServer's start of the subprocess.
ServerInit ==
    /\ subs = {}
    /\ mutex = "unlocked"
    /\ writing = NoCmd
    /\ rpc = "scan"
    /\ rmsg = << >>
    /\ rcur = NoChan
    /\ rrest = {}
    /\ nscanned = 0
    /\ stdin = [n |-> 0, last |-> << >>]
    /\ pc = [p \in Procs |-> "idle"]
    /\ phase = [p \in Procs |-> "none"]
    /\ cerr = [p \in Procs |-> "nil"]
    /\ callNo = [p \in Procs |-> 0]
    /\ output = [p \in Procs |-> << >>]
    /\ res = [p \in Procs |-> "none"]
    /\ backupMutex = "free"
    /\ err = [p \in Procs |-> "nil"]
    /\ retry = [p \in Procs |-> 0]
    /\ ret = [p \in Procs |-> "none"]
    /\ sink = [p \in Procs |-> "nil"]
    /\ cancelled = [p \in Procs |-> FALSE]
    /\ apc = "init"
    /\ acmds = 0
    /\ sent = [p \in Procs |-> << >>]
    /\ unresumed = {}
    /\ rets = [p \in Procs |-> << >>]
    /\ sinkres = [p \in Procs |-> "none"]
    /\ got = [p \in Procs |-> << >>]
    /\ rstale = {}
    /\ late = {}
    /\ lastIdx = 0
    /\ missed = FALSE
    /\ closed = FALSE
    /\ panicked = FALSE
    /\ lpc = "init"
    /\ mclosed = FALSE

Init == ServerInit /\ pin = NoInput /\ pout = NoOutput

\* --------------------------------------------------------- console (console.go)

\* Mutant: Unsubscribe leaves the channel in the registry.
UnregisterNot(S, ch) == S

\* delete(s.subs, messages)
Unregister(S, ch) == S \ {ch}

\* s.subs[messages] = true
Register(S, ch) == S \cup {ch}

\* The channels BroadcastMessage ranges over: the registry, read under RLock.
RangeSubs == subs

\* Whether the owner's Unsubscribe of channel ch has returned.
Unsubscribed(ch) ==
    CASE ch = AttChan -> apc = "detached"
      [] ch = LogChan -> FALSE
      [] OTHER -> \/ ch[2] < callNo[ch[1]]
                  \/ pc[ch[1]] \notin {"subscribe", "send", "wait", "unsubscribe"}

\* readOutput after BroadcastMessage returned: select on the stop channel,
\* return when it is closed, else (default) Scan again.
AfterBroadcast == IF closed THEN "exited" ELSE "scan"

\* Mutant: the range of BroadcastMessage ends after its first delivery.
NextIterationFirstOnly ==
    /\ rpc' = AfterBroadcast
    /\ rmsg' = << >>
    /\ rcur' = NoChan
    /\ rrest' = {}
    /\ rstale' = {}
    /\ mutex' = "unlocked"

\* BroadcastMessage after one `channel <- message` completed: the next
\* iteration of the range (in any order), or RUnlock and return to readOutput.
NextIteration ==
    IF rrest = {}
    THEN /\ rpc' = AfterBroadcast
         /\ rmsg' = << >>
         /\ rcur' = NoChan
         /\ rrest' = {}
         /\ rstale' = {}
         /\ mutex' = "unlocked"
    ELSE /\ \E ch \in rrest : rcur' = ch /\ rrest' = rrest \ {ch}
         /\ UNCHANGED <<rpc, rmsg, mutex, rstale>>

\* readOutput: Scan returns line l, BroadcastMessage takes the read lock and
\* starts ranging over the subscribers; with none registered it returns at once.
ReadLine(l) ==
    /\ rpc = "scan"
    /\ nscanned < MaxLines
    /\ mutex = "unlocked"
    /\ nscanned' = nscanned + 1
    /\ IF RangeSubs = {}
       THEN /\ rpc' = AfterBroadcast
            /\ UNCHANGED <<rmsg, rcur, rrest, mutex, rstale>>
       ELSE /\ rpc' = "send"
            /\ rmsg' = l
            /\ mutex' = "rlocked"
            /\ rstale' = {ch \in RangeSubs : Unsubscribed(ch)}
            /\ \E ch \in RangeSubs : rcur' = ch /\ rrest' = RangeSubs \ {ch}
    /\ UNCHANGED <<subs, writing>>
    /\ UNCHANGED <<callVars, backupVars, attachVars, sent, unresumed, rets, sinkres, got, late>>
    /\ UNCHANGED <<fanVars, lifeVars, pureVars>>
    /\ UNCHANGED stdin
    /\ UNCHANGED logVars

\* The queue consumer of newConsole: fmt.Fprintf(c.input, "%s\n", m) of the
\* command m it received, one Write of the command and a newline.
WriterWrite ==
    /\ writing \notin {NoCmd, WriterExited}
    /\ stdin' = [n |-> stdin.n + 1, last |-> Fprintf(writing[2])]
    /\ writing' = NoCmd
    /\ UNCHANGED <<subs, mutex, rpc, rmsg, rcur, rrest, nscanned>>
    /\ UNCHANGED <<callVars, backupVars, attachVars, histVars>>
    /\ UNCHANGED <<fanVars, lifeVars, pureVars>>
    /\ UNCHANGED logVars

\* RunServer: go s.console.Subscribe(messages)
LogSubscribe ==
    /\ lpc = "init"
    /\ mutex = "unlocked"
    /\ subs' = Register(subs, LogChan)
    /\ lpc' = "subscribed"
    /\ UNCHANGED <<mutex, writing, rpc, rmsg, rcur, rrest, nscanned, stdin>>
    /\ UNCHANGED <<callVars, backupVars, attachVars, histVars>>
    /\ UNCHANGED <<fanVars, lifeVars, mclosed, pureVars>>

\* BroadcastMessage's send on messages: processMessages receives the line
\* (for m := range messages); once messages is closed the send panics.
LogReceive ==
    /\ rpc = "send"
    /\ rcur = LogChan
    /\ IF mclosed
       THEN /\ panicked' = TRUE
            /\ UNCHANGED <<rpc, rmsg, rcur, rrest, mutex, rstale, closed>>
       ELSE /\ NextIteration
            /\ UNCHANGED lifeVars
    /\ UNCHANGED <<subs, writing, nscanned, stdin>>
    /\ UNCHANGED <<callVars, backupVars, attachVars>>
    /\ UNCHANGED <<sent, unresumed, rets, sinkres, got, late>>
    /\ UNCHANGED <<fanVars, logVars, pureVars>>

\* RunServer's wait goroutine after cmd.Wait returned and its result was
\* received: close(errChan); close(messages).  messages stays registered.
CloseMessages ==
    /\ ~mclosed
    /\ mclosed' = TRUE
    /\ UNCHANGED <<consoleVars, callVars, backupVars, attachVars, histVars>>
    /\ UNCHANGED <<fanVars, lifeVars, lpc, pureVars>>

\* console.Close: close(c.inputQueue); close(c.stop).  RunServer's wait
\* goroutine calls it once, after close(messages).
Close ==
    /\ mclosed
    /\ ~closed
    /\ closed' = TRUE
    /\ UNCHANGED <<consoleVars, callVars, backupVars, attachVars, histVars>>
    /\ UNCHANGED <<fanVars, panicked, pureVars>>
    /\ UNCHANGED logVars

\* The queue consumer's range ends when inputQueue is closed.
WriterExit ==
    /\ closed
    /\ writing = NoCmd
    /\ writing' = WriterExited
    /\ UNCHANGED <<subs, mutex, rpc, rmsg, rcur, rrest, nscanned>>
    /\ UNCHANGED <<callVars, backupVars, attachVars, histVars>>
    /\ UNCHANGED <<fanVars, lifeVars, pureVars>>
    /\ UNCHANGED stdin
    /\ UNCHANGED logVars

\* readOutput: Scan returns false once the subprocess has exited and its
\* output is consumed; the loop ends.
ReaderEOF ==
    /\ closed
    /\ rpc = "scan"
    /\ rpc' = "exited"
    /\ UNCHANGED <<subs, mutex, writing, rmsg, rcur, rrest, nscanned>>
    /\ UNCHANGED <<callVars, backupVars, attachVars, histVars>>
    /\ UNCHANGED <<fanVars, lifeVars, pureVars>>
    /\ UNCHANGED stdin
    /\ UNCHANGED logVars

\* ------------------------------------------ SendRawCommandWaitResponse

\* The arguments of the call: those saveHold, saveQuery and saveResume pass
\* ("recover": the deferred saveResume), and those of a direct caller.
Command(ph) ==
    CASE ph = "hold" -> CmdHold
      [] ph = "query" -> CmdQuery
      [] ph \in {"raw", "rawbad"} -> CmdList
      [] OTHER -> CmdResume

Pattern(ph) ==
    CASE ph = "hold" -> PatHold
      [] ph = "query" -> PatQuery
      [] ph = "raw" -> PatList
      [] ph = "rawbad" -> PatBad
      [] OTHER -> PatResume

InCall(p) == pc[p] \in {"subscribe", "send", "wait", "unsubscribe"}

\* saveHold/saveQuery/saveResume: derive the call's context and enter
\* SendRawCommandWaitResponse (make(chan string), output = "").
Call(p, ph) ==
    /\ pc' = [pc EXCEPT ![p] = "subscribe"]
    /\ phase' = [phase EXCEPT ![p] = ph]
    /\ cerr' = [cerr EXCEPT ![p] = IF cancelled[p] THEN "Canceled" ELSE "nil"]
    /\ callNo' = [callNo EXCEPT ![p] = @ + 1]
    /\ output' = [output EXCEPT ![p] = << >>]
    /\ res' = [res EXCEPT ![p] = "none"]

\* Backup continues at label l, its output variable holding out.
Goto(p, l, out) ==
    /\ pc' = [pc EXCEPT ![p] = l]
    /\ phase' = [phase EXCEPT ![p] = "none"]
    /\ cerr' = [cerr EXCEPT ![p] = "nil"]
    /\ output' = [output EXCEPT ![p] = out]
    /\ res' = [res EXCEPT ![p] = "none"]
    /\ UNCHANGED callNo

\* s.console.Subscribe(messages)
Subscribe(p) ==
    /\ pc[p] = "subscribe"
    /\ mutex = "unlocked"
    /\ subs' = Register(subs, Chan(p))
    /\ pc' = [pc EXCEPT ![p] = "send"]
    /\ got' = [got EXCEPT ![p] = << >>]
    /\ UNCHANGED <<mutex, writing, rpc, rmsg, rcur, rrest, nscanned>>
    /\ UNCHANGED <<phase, cerr, callNo, output, res>>
    /\ UNCHANGED <<backupVars, attachVars, sent, unresumed, rets, sinkres, rstale, late>>
    /\ UNCHANGED <<fanVars, lifeVars, pureVars>>
    /\ UNCHANGED stdin
    /\ UNCHANGED logVars

\* s.console.SendRawCommand(rawCommand): the send on the unbuffered
\* inputQueue completes when the queue consumer receives.
\* A send on inputQueue after Close closed it panics.
SendRawCommand(p) ==
    /\ pc[p] = "send"
    /\ IF closed
       THEN /\ panicked' = TRUE
            /\ UNCHANGED <<writing, sent, unresumed, pc, closed>>
       ELSE /\ writing = NoCmd
            /\ writing' = <<p, Command(phase[p])>>
            /\ sent' = [sent EXCEPT ![p] = Append(@, Command(phase[p]))]
            /\ unresumed' = CASE Command(phase[p]) = CmdHold -> unresumed \cup {p}
                              [] Command(phase[p]) = CmdResume -> unresumed \ {p}
                              [] OTHER -> unresumed
            /\ pc' = [pc EXCEPT ![p] = "wait"]
            /\ UNCHANGED lifeVars
    /\ UNCHANGED <<subs, mutex, rpc, rmsg, rcur, rrest, nscanned>>
    /\ UNCHANGED <<phase, cerr, callNo, output, res>>
    /\ UNCHANGED <<backupVars, attachVars, rets, sinkres, got, rstale, late>>
    /\ UNCHANGED <<fanVars, pureVars>>
    /\ UNCHANGED stdin
    /\ UNCHANGED logVars

\* case m := <-messages: accumulate, test the pattern, return on a match.
Receive(p) ==
    /\ pc[p] = "wait"
    /\ rpc = "send"
    /\ rcur = Chan(p)
    /\ LET out == Accumulate(output[p], rmsg)
       IN  /\ output' = [output EXCEPT ![p] = out]
           /\ IF MatchString(Pattern(phase[p]), out)
              THEN /\ pc' = [pc EXCEPT ![p] = "unsubscribe"]
                   /\ res' = [res EXCEPT ![p] = "nil"]
              ELSE UNCHANGED <<pc, res>>
    /\ got' = [got EXCEPT ![p] = Append(@, rmsg)]
    /\ late' = late \cup ({rcur} \cap rstale)
    /\ NextIteration
    /\ UNCHANGED <<subs, writing, nscanned>>
    /\ UNCHANGED <<phase, cerr, callNo>>
    /\ UNCHANGED <<backupVars, attachVars, sent, unresumed, rets, sinkres>>
    /\ UNCHANGED <<fanVars, lifeVars, pureVars>>
    /\ UNCHANGED stdin
    /\ UNCHANGED logVars

\* case <-ctx.Done(): return output, ctx.Err()
CtxDone(p) ==
    /\ pc[p] = "wait"
    /\ cerr[p] # "nil"
    /\ pc' = [pc EXCEPT ![p] = "unsubscribe"]
    /\ res' = [res EXCEPT ![p] = cerr[p]]
    /\ UNCHANGED <<phase, cerr, callNo, output>>
    /\ UNCHANGED <<consoleVars, backupVars, attachVars, histVars>>
    /\ UNCHANGED <<fanVars, lifeVars, pureVars>>
    /\ UNCHANGED logVars

\* The deadline of context.WithTimeout elapses.  Time is not measured: a
\* deadline may elapse at any moment of the call.
Timeout(p) ==
    /\ pc[p] \in {"subscribe", "send", "wait"}
    /\ cerr[p] = "nil"
    /\ cerr' = [cerr EXCEPT ![p] = "DeadlineExceeded"]
    /\ UNCHANGED <<pc, phase, callNo, output, res>>
    /\ UNCHANGED <<consoleVars, backupVars, attachVars, histVars>>
    /\ UNCHANGED <<fanVars, lifeVars, pureVars>>
    /\ UNCHANGED logVars

\* The caller of Backup cancels its context (a context cancelled before the
\* call is one cancelled before Backup takes its first step).
Cancel(p) ==
    /\ pc[p] \notin {"idle", "done"}
    /\ ~cancelled[p]
    /\ cancelled' = [cancelled EXCEPT ![p] = TRUE]
    /\ cerr' = [cerr EXCEPT ![p] =
                  IF pc[p] \in {"subscribe", "send", "wait"} /\ @ = "nil"
                  THEN "Canceled" ELSE @]
    /\ UNCHANGED <<pc, phase, callNo, output, res>>
    /\ UNCHANGED <<backupMutex, err, retry, ret, sink>>
    /\ UNCHANGED <<consoleVars, attachVars, histVars>>
    /\ UNCHANGED <<fanVars, lifeVars, pureVars>>
    /\ UNCHANGED logVars

\* -------------------------------------------------------- Server.Backup

\* for retry := 3; retry > 0; retry--
QueryRetries == 3

\* Backup executes `return r` with its err variable holding e: the deferred
\* function resumes the server when err is set, then the mutex is unlocked.
Return(p, r, e) ==
    /\ ret' = [ret EXCEPT ![p] = r]
    /\ retry' = [retry EXCEPT ![p] = 0]
    /\ IF DeferredResume(e)
       THEN /\ Call(p, "recover")
            /\ err' = [err EXCEPT ![p] = e]
            /\ UNCHANGED backupMutex
       ELSE /\ Goto(p, "done", << >>)
            /\ err' = [err EXCEPT ![p] = "nil"]
            /\ backupMutex' = "free"

\* Mutant: the error of the hold step is ignored and Backup goes on.
AfterHoldIgnoresError(p, e) ==
    /\ Goto(p, "pause", << >>)
    /\ err' = [err EXCEPT ![p] = "nil"]
    /\ UNCHANGED <<ret, retry, backupMutex>>

\* err = s.saveHold(...); if err != nil { return err }
AfterHold(p, e) ==
    IF e # "nil"
    THEN Return(p, e, e)
    ELSE /\ Goto(p, "pause", << >>)
         /\ err' = [err EXCEPT ![p] = "nil"]
         /\ UNCHANGED <<ret, retry, backupMutex>>

\* Mutant: the query loop does not break on success.
AfterQueryNoBreak(p, e, out) ==
    /\ err' = [err EXCEPT ![p] = e]
    /\ Goto(p, "sleep", << >>)
    /\ UNCHANGED <<ret, retry, backupMutex>>

\* output, err = s.saveQuery(...); if err == nil { break }; time.Sleep(...)
AfterQuery(p, e, out) ==
    /\ err' = [err EXCEPT ![p] = e]
    /\ IF e = "nil" THEN Goto(p, "backup", out) ELSE Goto(p, "sleep", << >>)
    /\ UNCHANGED <<ret, retry, backupMutex>>

\* err = s.saveResume(...); if err != nil { return err }; return nil
AfterResume(p, e) == Return(p, e, e)

\* Mutant: the error of the deferred saveResume replaces the returned error.
AfterRecoverEscalates(p) ==
    /\ Goto(p, "done", << >>)
    /\ err' = [err EXCEPT ![p] = "nil"]
    /\ backupMutex' = "free"
    /\ ret' = [ret EXCEPT ![p] = IF res[p] # "nil" THEN res[p] ELSE @]
    /\ UNCHANGED retry

\* A direct call of SendRawCommandWaitResponse returned e to its caller.
AfterRaw(p, e) ==
    /\ Goto(p, "done", << >>)
    /\ ret' = [ret EXCEPT ![p] = e]
    /\ UNCHANGED <<err, retry, backupMutex>>

\* The deferred saveResume returned: its error is dropped, the mutex unlocked.
AfterRecover(p) ==
    /\ Goto(p, "done", << >>)
    /\ err' = [err EXCEPT ![p] = "nil"]
    /\ backupMutex' = "free"
    /\ UNCHANGED <<ret, retry>>

\* SendRawCommandWaitResponse returns: the deferred Unsubscribe (which needs
\* the write lock) and close(messages) run, then the caller continues.
Unsubscribe(p) ==
    /\ pc[p] = "unsubscribe"
    /\ mutex = "unlocked"
    /\ subs' = Unregister(subs, Chan(p))
    /\ rets' = [rets EXCEPT ![p] = Append(@, res[p])]
    /\ got' = [got EXCEPT ![p] = << >>]
    /\ CASE phase[p] = "hold" -> AfterHold(p, res[p])
         [] phase[p] = "query" -> AfterQuery(p, res[p], output[p])
         [] phase[p] = "resume" -> AfterResume(p, res[p])
         [] phase[p] = "raw" -> AfterRaw(p, res[p])
         [] OTHER -> AfterRecover(p)
    /\ UNCHANGED <<mutex, writing, rpc, rmsg, rcur, rrest, nscanned>>
    /\ UNCHANGED <<sink, cancelled, attachVars, sent, unresumed, sinkres, rstale, late>>
    /\ UNCHANGED <<fanVars, lifeVars, pureVars>>
    /\ UNCHANGED stdin
    /\ UNCHANGED logVars

\* Mutant: defaultOptions accepts a nil Backupper.
defaultOptionsAccepts(b) == "nil"

\* defaultOptions: the error for options whose Backupper is b.
defaultOptions(b) == IF b = "nil" THEN "ErrNoBackupper" ELSE "nil"

\* A direct call of SendRawCommandWaitResponse with the arguments of ph:
\* respRegex, err := regexp.Compile(responsePattern); if err != nil { return }
RawCall(p, ph) ==
    /\ pc[p] = "idle"
    /\ IF Compile(Pattern(ph)) # "nil"
       THEN /\ pc' = [pc EXCEPT ![p] = "done"]
            /\ phase' = [phase EXCEPT ![p] = ph]
            /\ ret' = [ret EXCEPT ![p] = Compile(Pattern(ph))]
            /\ UNCHANGED <<cerr, callNo, output, res>>
       ELSE /\ Call(p, ph)
            /\ UNCHANGED ret
    /\ UNCHANGED <<backupMutex, err, retry, sink, cancelled>>
    /\ UNCHANGED <<consoleVars, attachVars, histVars>>
    /\ UNCHANGED <<fanVars, lifeVars, pureVars>>
    /\ UNCHANGED logVars

\* Backup is called with options whose Backupper is b:
\* opts, err := defaultOptions(opts); if err != nil { return err }
BackupStart(p, b) ==
    /\ pc[p] = "idle"
    /\ sink' = [sink EXCEPT ![p] = b]
    /\ IF defaultOptions(b) # "nil"
       THEN /\ pc' = [pc EXCEPT ![p] = "done"]
            /\ ret' = [ret EXCEPT ![p] = defaultOptions(b)]
       ELSE /\ pc' = [pc EXCEPT ![p] = "lock"]
            /\ UNCHANGED ret
    /\ UNCHANGED <<phase, cerr, callNo, output, res>>
    /\ UNCHANGED <<backupMutex, err, retry, cancelled>>
    /\ UNCHANGED <<consoleVars, attachVars, histVars>>
    /\ UNCHANGED <<fanVars, lifeVars, pureVars>>
    /\ UNCHANGED logVars

\* s.backupMutex.Lock(); the defers are registered; err = s.saveHold(...)
Lock(p) ==
    /\ pc[p] = "lock"
    /\ backupMutex = "free"
    /\ backupMutex' = p
    /\ Call(p, "hold")
    /\ UNCHANGED <<err, retry, ret, sink, cancelled>>
    /\ UNCHANGED <<consoleVars, attachVars, histVars>>
    /\ UNCHANGED <<fanVars, lifeVars, pureVars>>
    /\ UNCHANGED logVars

\* select: case <-time.After(opts.SavePause): the query loop starts.
PauseElapsed(p) ==
    /\ pc[p] = "pause"
    /\ retry' = [retry EXCEPT ![p] = QueryRetries]
    /\ Call(p, "query")
    /\ UNCHANGED <<backupMutex, err, ret, sink, cancelled>>
    /\ UNCHANGED <<consoleVars, attachVars, histVars>>
    /\ UNCHANGED <<fanVars, lifeVars, pureVars>>
    /\ UNCHANGED logVars

\* select: case <-ctx.Done(): return ctx.Err()  (err is not assigned)
PauseCancelled(p) ==
    /\ pc[p] = "pause"
    /\ cancelled[p]
    /\ Return(p, "Canceled", err[p])
    /\ UNCHANGED <<sink, cancelled>>
    /\ UNCHANGED <<consoleVars, attachVars, histVars>>
    /\ UNCHANGED <<fanVars, lifeVars, pureVars>>
    /\ UNCHANGED logVars

\* time.Sleep(opts.SavePause) ends; retry--; the loop goes on while retry > 0,
\* else: if err != nil { return err }
SleepElapsed(p) ==
    /\ pc[p] = "sleep"
    /\ IF retry[p] - 1 > 0
       THEN /\ retry' = [retry EXCEPT ![p] = @ - 1]
            /\ Call(p, "query")
            /\ UNCHANGED <<backupMutex, err, ret>>
       ELSE Return(p, err[p], err[p])
    /\ UNCHANGED <<sink, cancelled>>
    /\ UNCHANGED <<consoleVars, attachVars, histVars>>
    /\ UNCHANGED <<fanVars, lifeVars, pureVars>>
    /\ UNCHANGED logVars

\* The errors opts.Backupper.Backup(files) may return.
SinkResults == {"nil", "SinkError"}

\* files, err := parseSaveQuery(output); err = opts.Backupper.Backup(files);
\* err = s.saveResume(ctx, opts.CommandTimeout)
ParseAndCopy(p) ==
    /\ pc[p] = "backup"
    /\ LET parsed == parseSaveQuery(output[p])
       IN  IF parsed.err # "nil"
           THEN Return(p, parsed.err, parsed.err) /\ UNCHANGED sinkres
           ELSE \E e \in SinkResults :
                  /\ sinkres' = [sinkres EXCEPT ![p] = e]
                  /\ IF e # "nil"
                     THEN Return(p, e, e)
                     ELSE /\ Call(p, "resume")
                          /\ UNCHANGED <<backupMutex, err, ret>>
                          /\ retry' = [retry EXCEPT ![p] = 0]
    /\ UNCHANGED <<sink, cancelled>>
    /\ UNCHANGED <<consoleVars, attachVars>>
    /\ UNCHANGED <<sent, unresumed, rets, got, rstale, late>>
    /\ UNCHANGED <<fanVars, lifeVars, pureVars>>
    /\ UNCHANGED logVars

\* -------------------------------------------------------- Server.Attach

\* A line typed on the attached terminal.
AttachCmd == "list"

\* s.console.Subscribe(messages); the receiving goroutine starts.
AttachSubscribe ==
    /\ apc = "init"
    /\ mutex = "unlocked"
    /\ subs' = Register(subs, AttChan)
    /\ apc' = "attached"
    /\ lastIdx' = nscanned
    /\ UNCHANGED <<mutex, writing, rpc, rmsg, rcur, rrest, nscanned>>
    /\ UNCHANGED <<callVars, backupVars, acmds, histVars, missed>>
    /\ UNCHANGED <<lifeVars, pureVars>>
    /\ UNCHANGED stdin
    /\ UNCHANGED logVars

\* for m := range messages { fmt.Fprintln(out, m) }
AttachReceive ==
    /\ apc # "init"
    /\ rpc = "send"
    /\ rcur = AttChan
    /\ late' = late \cup ({rcur} \cap rstale)
    /\ IF apc = "attached"
       THEN /\ lastIdx' = nscanned
            /\ missed' = (missed \/ nscanned # lastIdx + 1)
       ELSE UNCHANGED <<lastIdx, missed>>
    /\ NextIteration
    /\ UNCHANGED <<subs, writing, nscanned>>
    /\ UNCHANGED <<callVars, backupVars, attachVars, sent, unresumed, rets, sinkres, got>>
    /\ UNCHANGED <<lifeVars, pureVars>>
    /\ UNCHANGED stdin
    /\ UNCHANGED logVars

\* for scanner.Scan() { s.SendRawCommand(scanner.Text()) }
AttachSend ==
    /\ apc = "attached"
    /\ acmds < MaxAttachCmds
    /\ IF closed
       THEN /\ panicked' = TRUE
            /\ UNCHANGED <<writing, acmds, closed>>
       ELSE /\ writing = NoCmd
            /\ writing' = <<Att, AttachCmd>>
            /\ acmds' = acmds + 1
            /\ UNCHANGED lifeVars
    /\ UNCHANGED <<subs, mutex, rpc, rmsg, rcur, rrest, nscanned>>
    /\ UNCHANGED <<callVars, backupVars, apc, histVars>>
    /\ UNCHANGED <<fanVars, pureVars>>
    /\ UNCHANGED stdin
    /\ UNCHANGED logVars

\* The input ends: Attach returns and its deferred Unsubscribe runs.
AttachUnsubscribe ==
    /\ apc = "attached"
    /\ mutex = "unlocked"
    /\ subs' = Unregister(subs, AttChan)
    /\ apc' = "detached"
    /\ lastIdx' = 0
    /\ UNCHANGED <<mutex, writing, rpc, rmsg, rcur, rrest, nscanned>>
    /\ UNCHANGED <<callVars, backupVars, acmds, histVars, missed>>
    /\ UNCHANGED <<lifeVars, pureVars>>
    /\ UNCHANGED stdin
    /\ UNCHANGED logVars

\* ----------------------------------------------------- the specifications

\* The console's own goroutines.
Console ==
    \/ \E l \in Lines : ReadLine(l)
    \/ WriterWrite

\* One caller of Server.Backup.
Backup(p) ==
    \/ \E b \in {"set", "nil"} : BackupStart(p, b)
    \/ Lock(p)
    \/ Subscribe(p)
    \/ SendRawCommand(p)
    \/ Receive(p)
    \/ CtxDone(p)
    \/ Unsubscribe(p)
    \/ Timeout(p)
    \/ Cancel(p)
    \/ PauseElapsed(p)
    \/ PauseCancelled(p)
    \/ SleepElapsed(p)
    \/ ParseAndCopy(p)

\* The attached terminal.
Attach ==
    \/ AttachSubscribe
    \/ AttachReceive
    \/ AttachSend
    \/ AttachUnsubscribe

\* Two concurrent Backup callers on one Server.  The channel RunServer
\* subscribes for processMessages is always received from and is left out.
Next == Console \/ \E p \in Procs : Backup(p)

Spec == Init /\ [][Next]_vars

\* One Backup caller next to an attached terminal.
AttachNext == Console \/ Backup("b1") \/ Attach

AttachSpec == Init /\ [][AttachNext]_vars

\* Every goroutine that can take a step eventually takes one.  What the
\* environment does (the subprocess printing a line, a deadline elapsing, a
\* caller cancelling or the terminal closing) is not forced.
Progress(p) ==
    \/ Lock(p)
    \/ Subscribe(p)
    \/ SendRawCommand(p)
    \/ Receive(p)
    \/ CtxDone(p)
    \/ Unsubscribe(p)
    \/ PauseElapsed(p)
    \/ SleepElapsed(p)
    \/ ParseAndCopy(p)

\* ---- parseSaveQuery on its own

\* The tokens of an entry of a response's last line, and the entries: the
\* token sequences of up to MaxEntryLen tokens.
EntryTokens == {TokCurrent, TokLevelname, ":", "16"}

SeqsUpTo(S, n) == UNION {[1..k -> S] : k \in 0..n}

Entries == SeqsUpTo(EntryTokens, MaxEntryLen)

\* The lines that may precede the last line: none, one that does not mention
\* levelname.txt and one that does.
Headings == {<< >>, <<LData>>, <<LBad>>}

\* One or two entries joined by ", ".
RECURSIVE JoinEntries(_)
JoinEntries(es) ==
    IF Len(es) = 1 THEN es[1] ELSE es[1] \o <<", ">> \o JoinEntries(Tail(es))

\* A response parseSaveQuery is applied to: the heading lines h, then a last
\* line of the entries es.
ParseInput(h, es) ==
    [response |-> Join(h \o <<JoinEntries(es)>>), heading |-> h,
     entries |-> es, files |-> << >>, disk |-> << >>]

\* The last line has one or two entries.
ParseInit ==
    /\ ServerInit
    /\ pout = NoOutput
    /\ \E h \in Headings : \E n \in {1, 2} : \E es \in [1..n -> Entries] :
            pin = ParseInput(h, es)

\* files, err := parseSaveQuery(output)
Parse ==
    /\ pout.op = "none"
    /\ pout' = [op |-> "parse", val |-> parseSaveQuery(pin.response)]
    /\ UNCHANGED <<consoleVars, callVars, backupVars, attachVars, histVars>>
    /\ UNCHANGED <<fanVars, lifeVars, pin>>
    /\ UNCHANGED logVars

ParseSpec == ParseInit /\ [][Parse]_vars

\* ---- realFilePath and the sinks on their own

\* The names a listing may hold.
NameCurrent == <<"world", "db", "CURRENT">>
NameLevelDat == <<"world", "level.dat">>
NameLevelname == <<"world", "levelname.txt">>
Names == {NameCurrent, NameLevelDat, NameLevelname}

\* The paths that may exist: the names and the names with a db element added.
DiskPaths == Names \cup {JoinPath(JoinPath(Dir(n), "db"), Base(n)) : n \in Names}

\* Lengths of listed files and sizes of files on disk.
Sizes == 1..MaxSize

ListedFiles == [Name : Names, Length : Sizes]

\* The listing of a 'save query' response of a current server.
Listing16 ==
    <<[Name |-> NameCurrent, Length |-> 16],
      [Name |-> NameLevelDat, Length |-> 2049],
      [Name |-> NameLevelname, Length |-> 12]>>

\* A listing of one or two files or Listing16, and any disk.
FilesInit ==
    /\ ServerInit
    /\ pout = NoOutput
    /\ \E S \in SUBSET DiskPaths : \E d \in [S -> Sizes] :
          \/ \E n \in {1, 2} : \E fs \in [1..n -> ListedFiles] :
                pin = [NoInput EXCEPT !.files = fs, !.disk = d]
          \/ pin = [NoInput EXCEPT !.files = Listing16, !.disk = d]

\* The result val of function op is recorded.
Applied(op, val) ==
    /\ pout' = [op |-> op, val |-> val]
    /\ UNCHANGED <<consoleVars, callVars, backupVars, attachVars, histVars>>
    /\ UNCHANGED <<fanVars, lifeVars, pin>>
    /\ UNCHANGED logVars

\* realFilePath (list of non-db files) on each file of the listing.
ResolveNonDB ==
    /\ pout.op = "none"
    /\ Applied("nondb",
               [i \in 1..Len(pin.files) |-> realFilePathNonDB(pin.files[i])])

\* realFilePath (existence probe) on each file of the listing.
Resolve ==
    /\ pout.op = "none"
    /\ Applied("probe",
               [i \in 1..Len(pin.files) |-> realFilePath(pin.files[i], pin.disk)])

\* err = opts.Backupper.Backup(files) with a TarBackup.
TarBackupRun ==
    /\ pout.op = "none"
    /\ Applied("tar", TarBackup(pin.files, pin.disk))

\* err = opts.Backupper.Backup(files) with BackupperFunc(copyBackup).
CopyBackupRun ==
    /\ pout.op = "none"
    /\ Applied("copy", copyBackup(pin.files, pin.disk))

FilesNext == ResolveNonDB \/ Resolve \/ TarBackupRun \/ CopyBackupRun

FilesSpec == FilesInit /\ [][FilesNext]_vars

\* One direct caller of SendRawCommandWaitResponse.
Raw(p) ==
    \/ \E ph \in {"raw", "rawbad"} : RawCall(p, ph)
    \/ Subscribe(p)
    \/ SendRawCommand(p)
    \/ Receive(p)
    \/ CtxDone(p)
    \/ Unsubscribe(p)
    \/ Timeout(p)
    \/ Cancel(p)

RawNext == Console \/ Raw("b1")

RawSpec == Init /\ [][RawNext]_vars

\* Two concurrent senders on the input queue: a direct caller of
\* SendRawCommandWaitResponse and the attached terminal.
WriteNext == Console \/ Raw("b1") \/ Attach

WriteSpec == Init /\ [][WriteNext]_vars

\* The subprocess exits while a Backup call runs: RunServer closes the
\* console.
CloseNext ==
    \/ Console
    \/ Backup("b1")
    \/ LogSubscribe
    \/ LogReceive
    \/ CloseMessages
    \/ Close
    \/ WriterExit
    \/ ReaderEOF

CloseSpec == Init /\ [][CloseNext]_vars

\* The goroutines of the console and the caller take the steps they can take.
FairCloseSpec ==
    /\ CloseSpec
    /\ WF_vars(WriterWrite)
    /\ WF_vars(LogReceive)
    /\ WF_vars(WriterExit)
    /\ WF_vars(ReaderEOF)
    /\ WF_vars(Progress("b1"))

FairAttachSpec ==
    /\ AttachSpec
    /\ WF_vars(WriterWrite)
    /\ WF_vars(AttachReceive)
    /\ WF_vars(Progress("b1"))

\* ------------------------------------------------------------- properties

Range(q) == {q[i] : i \in 1..Len(q)}

CountOf(q, c) == Cardinality({i \in 1..Len(q) : q[i] = c})

Queries(n) == [i \in 1..n |-> CmdQuery]

\* The hold step of p's Backup call has returned, acknowledged or not.
HoldAcked(p) == Len(rets[p]) >= 1 /\ rets[p][1] = "nil"
HoldFailed(p) == Len(rets[p]) >= 1 /\ rets[p][1] # "nil"

\* Some query attempt of p's Backup call was acknowledged.
QueryAcked(p) ==
    \E i \in 1..Len(rets[p]) : sent[p][i] = CmdQuery /\ rets[p][i] = "nil"

\* C1: whenever a Backup call whose hold step succeeded has returned, it has
\* sent "save resume" (on the success path and on every failure path).
C1_ResumeSentBeforeReturn ==
    \A p \in Procs :
        (pc[p] = "done" /\ HoldAcked(p)) => CmdResume \in Range(sent[p])

\* C2: Backup calls are serial: a caller's "save hold" is never sent while
\* the "save hold" of another caller has not been followed by that caller's
\* "save resume".
C2_BackupsSerial == Cardinality(unresumed) <= 1

C4_SinkErrorSurfacesResumeOnce ==
    \A p \in Procs :
        (pc[p] = "done" /\ sinkres[p] = "SinkError")
        => /\ ret[p] = "SinkError"
           /\ CountOf(sent[p], CmdResume) = 1

\* A returned Backup call whose sink failed and whose resume timed out.
C4_Witness ==
    /\ pc["b1"] = "done"
    /\ sinkres["b1"] = "SinkError"
    /\ rets["b1"][Len(rets["b1"])] = "DeadlineExceeded"

\* C5: when the hold step failed, Backup has returned the error of the hold
\* and has sent no "save resume".
C5_NoResumeAfterFailedHold ==
    \A p \in Procs :
        (pc[p] = "done" /\ HoldFailed(p))
        => /\ ret[p] = rets[p][1]
           /\ CmdResume \notin Range(sent[p])

\* C5 as amended: when the hold step failed, Backup has returned the error of
\* the hold and has sent, after the "save hold", exactly one "save resume"
\* (the deferred recovery) and nothing else.
C5_FailedHoldResumesOnce ==
    \A p \in Procs :
        (pc[p] = "done" /\ HoldFailed(p))
        => /\ ret[p] = rets[p][1]
           /\ sent[p] = <<CmdHold, CmdResume>>

\* A returned Backup call whose hold timed out.
C5_Witness ==
    /\ pc["b1"] = "done"
    /\ Len(rets["b1"]) = 2
    /\ rets["b1"][1] = "DeadlineExceeded"

\* C6: an Unsubscribe that runs while a broadcast is in progress returns and
\* the broadcast completes: the caller is never waiting for the write lock
\* while the broadcaster, holding the read lock, waits for that caller to
\* receive.
C6_UnsubscribeNeverStuck ==
    \A p \in Procs :
        ~(pc[p] = "unsubscribe" /\ mutex = "rlocked" /\ rpc = "send" /\ rcur = Chan(p))

\* C7: every SendRawCommandWaitResponse call whose context is done eventually
\* returns, under fair scheduling.
C7_DoneCallReturns ==
    \A k \in 1..(QueryRetries + 3) :
        (callNo["b1"] = k /\ InCall("b1") /\ cerr["b1"] # "nil")
            ~> (Len(rets["b1"]) >= k)

\* C8: no channel receives a line of a broadcast that started after the
\* channel's Unsubscribe call returned.
C8_NoDeliveryAfterUnsubscribe == late = {}

\* A broadcast that started after the terminal's Unsubscribe returned is being
\* delivered, while the terminal's goroutine still receives from its channel.
C8_Witness ==
    /\ apc = "detached"
    /\ rpc = "send"
    /\ rcur = Chan("b1")

\* C9: every registered channel of a Backup caller belongs to the
\* SendRawCommandWaitResponse call it is running: once a call has returned
\* its channel is not in the registry.
C9_NoSubscriptionAfterReturn ==
    \A ch \in subs :
        ch[1] \in Procs =>
            /\ ch[2] = callNo[ch[1]]
            /\ pc[ch[1]] \in {"send", "wait", "unsubscribe"}

\* Calls have returned on a match, on a deadline and on a cancellation, and
\* the terminal is the only subscriber left.
C9_Witness ==
    /\ rets["b1"] = <<"nil", "DeadlineExceeded", "Canceled">>
    /\ pc["b1"] = "sleep"
    /\ subs = {AttChan}

\* C10: when the receive loop returns nil the output is the newline-join of
\* the lines delivered to the call, it matches the pattern and no shorter
\* prefix of the lines did; when it returns an error this is the context's
\* error and the output does not match.
C10_OutputIsJoinedLines ==
    \A p \in Procs :
        pc[p] = "unsubscribe" =>
            IF res[p] = "nil"
            THEN /\ output[p] = Join(got[p])
                 /\ MatchString(Pattern(phase[p]), output[p])
                 /\ \A k \in 0..(Len(got[p]) - 1) :
                        ~MatchString(Pattern(phase[p]), Join(SubSeq(got[p], 1, k)))
            ELSE /\ res[p] = cerr[p]
                 /\ res[p] \in {"Canceled", "DeadlineExceeded"}
                 /\ ~MatchString(Pattern(phase[p]), output[p])

\* C11: a SendRawCommandWaitResponse call made with a context that is
\* already cancelled returns the cancellation error, never a match.  The
\* context of a call is known to be cancelled before the call when an
\* earlier call of the same Backup already returned Canceled.
C11_CancelledCallReturnsCanceled ==
    \A p \in Procs :
        (pc[p] = "unsubscribe" /\ "Canceled" \in Range(rets[p]))
            => res[p] = "Canceled"

\* C12: a Backup call whose options have no Backupper returns the
\* configuration error without having taken the backup lock, made or
\* registered a channel, sent a command (a resume included) or started a call.
C12_NilBackupperTouchesNothing ==
    \A p \in Procs :
        (sink[p] = "nil" /\ pc[p] # "idle") =>
            /\ pc[p] = "done"
            /\ ret[p] = "ErrNoBackupper"
            /\ backupMutex # p
            /\ callNo[p] = 0
            /\ sent[p] = << >>
            /\ rets[p] = << >>
            /\ \A ch \in subs : ch[1] # p

\* A call without Backupper has returned while the other caller holds the
\* backup lock and waits for the acknowledgement of its "save hold".
C12_Witness ==
    /\ pc["b1"] = "done"
    /\ sink["b1"] = "nil"
    /\ ret["b1"] = "ErrNoBackupper"
    /\ backupMutex = "b2"
    /\ pc["b2"] = "wait"

\* C13: a SendRawCommandWaitResponse call whose response pattern does not
\* compile has returned the compile error at once: it made and registered no
\* channel and enqueued no command.
C13_BadPatternReturnsAtOnce ==
    \A p \in Procs :
        Pattern(phase[p]) = PatBad =>
            /\ pc[p] = "done"
            /\ ret[p] = "CompileError"
            /\ callNo[p] = 0
            /\ sent[p] = << >>
            /\ writing[1] # p
            /\ \A ch \in subs : ch[1] # p

\* A call with the bad pattern has returned.
C13_Witness ==
    /\ phase["b1"] = "rawbad"
    /\ pc["b1"] = "done"
    /\ ret["b1"] = "CompileError"
    /\ nscanned > 0

\* C14: after console.Close both the queue consumer and the read loop
\* terminate (unless the program has panicked), also when the read loop is
\* blocked in a delivery.
C14_CloseStopsGoroutines ==
    closed ~> (panicked \/ (rpc = "exited" /\ writing = WriterExited))

\* The tokens of entry e after its first ":" and before its second.
LengthPart(e) ==
    LET k == CHOOSE i \in 1..Len(e) : e[i] = ":" /\ \A j \in 1..(i-1) : e[j] # ":"
        rest == SubSeq(e, k + 1, Len(e))
        ends == {i \in 1..Len(rest) : rest[i] = ":"}
    IN  IF ends = {} THEN rest
        ELSE SubSeq(rest, 1, (CHOOSE i \in ends : \A j \in ends : i <= j) - 1)

\* A name:length entry.
WellFormedEntry(e) ==
    /\ Len(e) = 3
    /\ e[1] # ":"
    /\ e[2] = ":"
    /\ e[3] \in DOMAIN Atoi

\* The response of the input mentions levelname.txt on some line.
Mentions(in) ==
    \/ \E i \in 1..Len(in.heading) : \E k \in 1..Len(in.heading[i]) :
            in.heading[i][k] = TokLevelname
    \/ \E i \in 1..Len(in.entries) : \E k \in 1..Len(in.entries[i]) :
            in.entries[i][k] = TokLevelname

\* C15: parseSaveQuery returns the ordered (name, length) listing of the
\* last line when some line mentions levelname.txt and the last line is a
\* list of name:length entries; it returns an error when no line mentions
\* levelname.txt, and when an entry of the last line has no ":" or a length
\* that is not an integer.
C15_ParseSaveQuery ==
    pout.op = "parse" =>
        LET es == pin.entries
        IN  /\ (Mentions(pin) /\ \A i \in 1..Len(es) : WellFormedEntry(es[i]))
                => /\ pout.val.err = "nil"
                   /\ pout.val.files =
                        [i \in 1..Len(es) |->
                            [Name |-> <<es[i][1]>>, Length |-> Atoi[es[i][3]]]]
            /\ ~Mentions(pin) => pout.val.err # "nil"
            /\ (\E i \in 1..Len(es) :
                    \/ \A k \in 1..Len(es[i]) : es[i][k] # ":"
                    \/ ~IsInt(LengthPart(es[i])))
                => pout.val.err # "nil"

\* A response of two lines whose last line lists two files was parsed.
C15_Witness ==
    /\ pout.op = "parse"
    /\ pout.val.err = "nil"
    /\ pin.heading = <<LData>>
    /\ Len(pout.val.files) = 2
    /\ pout.val.files[1].Name = <<TokCurrent>>
    /\ pout.val.files[2].Name = <<TokLevelname>>

\* C16: for the listing world/db/CURRENT:16, world/level.dat:2049,
\* world/levelname.txt:12 both versions of realFilePath (the second with the
\* listed files on disk) resolve level.dat and levelname.txt to their
\* top-level paths and CURRENT to world/db/CURRENT.
C16_ListingResolves ==
    (/\ pin.files = Listing16
     /\ pout.op \in {"nondb", "probe"}
     /\ pout.op = "probe" => \A i \in 1..3 : Exists(pin.disk, Listing16[i].Name))
        => pout.val = <<NameCurrent, NameLevelDat, NameLevelname>>

\* Whether file i of the input can be read in full at its resolved path.
Transferable(i) ==
    LET p == realFilePath(pin.files[i], pin.disk)
    IN  Exists(pin.disk, p) /\ pin.disk[p] >= pin.files[i].Length

QueryAt(p) == {i \in 1..Len(sent[p]) : sent[p][i] = CmdQuery}

\* C18: a Backup call sends "save query" at most three times, each further
\* attempt only after the previous one returned an error and none after an
\* attempt that succeeded; when three attempts failed Backup returns the
\* error of the last one and neither the parser nor the sink has run.
C18_QueryRetries ==
    \A p \in Procs :
        /\ Cardinality(QueryAt(p)) <= 3
        /\ \A i \in QueryAt(p) :
              (i + 1) \in QueryAt(p) => (i <= Len(rets[p]) /\ rets[p][i] # "nil")
        /\ \A i \in QueryAt(p) :
              (i <= Len(rets[p]) /\ rets[p][i] = "nil")
                  => \A j \in QueryAt(p) : j <= i
        /\ (/\ pc[p] = "done"
            /\ Cardinality(QueryAt(p)) = 3
            /\ \A i \in QueryAt(p) : rets[p][i] # "nil")
              => /\ \E i \in QueryAt(p) :
                      /\ \A j \in QueryAt(p) : j <= i
                      /\ ret[p] = rets[p][i]
                 /\ sinkres[p] = "none"
                 /\ ret[p] # "ParseError"

\* Three attempts failed, two on their deadline and the last on the
\* cancellation, and Backup returned the cancellation error.
C18_Witness ==
    /\ pc["b1"] = "done"
    /\ Len(rets["b1"]) >= 4
    /\ SubSeq(sent["b1"], 1, 4) = <<CmdHold, CmdQuery, CmdQuery, CmdQuery>>
    /\ SubSeq(rets["b1"], 1, 4) =
            <<"nil", "DeadlineExceeded", "DeadlineExceeded", "Canceled">>
    /\ ret["b1"] = "Canceled"

\* C19: once the context of a Backup call is cancelled, the call starts no
\* pause between query attempts and sends no "save query" after its first.
C19_NoDelayNoQueryAfterCancel ==
    [][\A p \in Procs :
          cancelled[p] =>
              /\ ~(pc[p] # "sleep" /\ pc'[p] = "sleep")
              /\ ~(/\ CmdQuery \in Range(sent[p])
                   /\ Len(sent'[p]) > Len(sent[p])
                   /\ sent'[p][Len(sent'[p])] = CmdQuery)]_vars

C21_BroadcastCompletes == (rpc = "send") ~> (rpc = "scan")

\* The queue consumer holds a command it has received and not yet written.
Pending == writing \notin {NoCmd, WriterExited}

\* The number of commands the queue has accepted from all senders.
Accepted == Len(sent["b1"]) + Len(sent["b2"]) + acmds

\* C22: only the queue consumer writes to the subprocess input: every
\* accepted command is written once, by one Write of the command and its
\* newline, before the next command is accepted, so the writes are in the
\* order of acceptance and never interleaved, with concurrent senders.
C22_SingleWriterFifo ==
    /\ [](stdin.n = Accepted - (IF Pending THEN 1 ELSE 0))
    /\ [][/\ ~Pending => stdin' = stdin
          /\ Pending =>
                \/ writing' = writing /\ stdin' = stdin
                \/ /\ writing' = NoCmd
                   /\ stdin' = [n |-> stdin.n + 1, last |-> <<writing[2], NL>>]]_vars

\* The terminal's command has been written and the command of a call,
\* accepted after it, waits in the queue consumer.
C22_Witness ==
    /\ stdin = [n |-> 1, last |-> <<AttachCmd, NL>>]
    /\ writing = <<"b1", CmdList>>
    /\ apc = "attached"

\* C23: no goroutine sends on a closed channel, whatever the interleaving
\* of the teardown after the subprocess exits with the senders, the
\* subscribers and the broadcast.
C23_NoSendOnClosedChannel == ~panicked

====
